---- MODULE Spec2Model ----
(***************************************************************************)
(* A model of server.js of dongguaTV: the TTL cache (CacheManager), the    *)
(* streaming search aggregator (GET /api/search), the single-source search *)
(* and the detail lookups, the image cache store                           *)
(* (GET /api/tmdb-image/:size/:filename) and its eviction sweep            *)
(* (cleanCacheIfNeeded).                                                   *)
(*                                                                         *)
(* The specifications of the module:                                       *)
(*   CacheSpec       get/set on the cache, with a clock                    *)
(*   SearchSpec      streaming searches over the cache and the upstreams   *)
(*   FairSearchSpec  SearchSpec, every upstream call ending                *)
(*   DisconnectSpec  streaming searches whose clients may disconnect       *)
(*   LookupSpec      single-source searches and detail lookups             *)
(*   ApiSpec         a streaming search with the searches and lookups      *)
(*   ImageSpec       image requests interleaved at their awaits; sweeps    *)
(*   SweepSpec       the sweep applied to arbitrary cache directories      *)
(*   RacySweepSpec   the sweep while another process removes files         *)
(* Each leaves the other parts' variables unchanged.                       *)
(***************************************************************************)
EXTENDS Integers, Sequences, FiniteSets, TLC

\* ------------------------------------------------------------------------
\* Bounds of the model
\* ------------------------------------------------------------------------

\* The clock advances in steps of TickMs milliseconds, MaxTicks times.
TickMs == 300000

MaxTicks == 2

\* Streaming searches that one behaviour holds.
MaxSearchReq == 2

\* Streaming searches that one behaviour of DisconnectSpec and of ApiSpec
\* holds.
MaxStreamReq == 1

\* Single-source searches and detail lookups that one behaviour holds.
MaxApiReq == 2

\* Image requests that one behaviour holds.
MaxImgReq == 2

\* An upstream image is FullLen chunks of ChunkMB MiB each.
FullLen == 2

ChunkMB == 300

\* The cache directories SweepSpec starts from: at most MaxFiles files, of
\* 0 .. MaxSizeSteps times SizeStepMB MiB, with mtimes 1 .. MaxFileTime.
MaxFiles == 3

MaxSizeSteps == 2

SizeStepMB == 500

MaxFileTime == 2

\* ------------------------------------------------------------------------
\* JavaScript values
\* ------------------------------------------------------------------------

\* null and undefined; every other value of the model is a record too.
Null == [null |-> TRUE]

Undefined == [undefined |-> TRUE]

\* if (x): null and undefined are falsy; objects and arrays (an empty array
\* included) are truthy.
Truthy(x) == x \notin {Null, Undefined}

\* if (x.f), for a property that holds an array when the object has it: a
\* missing property is undefined, an array (an empty one too) is truthy.
HasProp(x, f) == f \in DOMAIN x

\* ------------------------------------------------------------------------
\* Strings are sequences of characters, so that concatenation is modelled.
\* ------------------------------------------------------------------------

\* Site keys of the site directory (getDB().sites) and the keywords asked.
SiteKeys == { <<"a">>, <<"a", "_", "b">> }

Keywords == { <<"c">>, <<"b", "_", "c">> }

\* `${site.key}_${keyword}`
SearchCacheKey(siteKey, keyword) == siteKey \o <<"_">> \o keyword

\* The id the detail lookups ask for.
Ids == { <<"7">> }

\* `${siteKey}_detail_${id}`
DetailCacheKey(siteKey, id) == siteKey \o <<"_", "d", "e", "t", "a", "i", "l", "_">> \o id

\* The keys the handlers of the model can compute.
AllKeys == { SearchCacheKey(s, w) : s \in SiteKeys, w \in Keywords }
           \cup { DetailCacheKey(s, i) : s \in SiteKeys, i \in Ids }

Categories == { "search", "detail" }

\* CACHE_TYPE: the two implemented backends.
CacheTypes == { "memory", "json" }

\* ------------------------------------------------------------------------
\* State
\* ------------------------------------------------------------------------
VARIABLES
    now,          \* Date.now(), in milliseconds
    cacheType,    \* cacheManager.type
    searchCache,  \* cacheManager.searchCache: key -> item | undefined
    detailCache,  \* cacheManager.detailCache
    searchDisk,   \* contents of cache_search.json
    detailDisk,   \* contents of cache_detail.json
    writeFailed,  \* history: a writeFileSync of saveDisk has thrown
    setLog,       \* history: the last set of each (category, key)
    lastGet,      \* history: the last get and what it returned
    sreq,         \* the streaming searches: request -> its state and response
    areq,         \* the single-source searches and the detail lookups
    fs,           \* the file system under IMAGE_CACHE_DIR: path -> node
    ireq,         \* the image requests: request -> its state and response
    newItemCount, \* newItemCount
    sweepTimers,  \* pending setTimeout callbacks of cleanCacheIfNeeded
    lastSweep,    \* history: what the last sweep saw and did
    dir           \* SweepSpec: the files of a cache directory, file -> size, mtime

cacheVars == <<cacheType, searchCache, detailCache, searchDisk, detailDisk,
               writeFailed>>

cacheHist == <<setLog, lastGet>>

searchVars == <<cacheVars, cacheHist, sreq, areq>>

imageVars == <<fs, ireq, newItemCount, sweepTimers, lastSweep>>

vars == <<now, searchVars, imageVars, dir>>

\* ------------------------------------------------------------------------
\* CacheManager
\* ------------------------------------------------------------------------

EmptyMap == [k \in AllKeys |-> Undefined]

\* JSON.stringify(map): the own properties of the object, as key/value pairs.
Stringify(map) == { <<k, map[k]>> : k \in { x \in AllKeys : map[x] # Undefined } }

MapOf(cache, cat) == IF cat = "search" THEN cache.search ELSE cache.detail

\* get(category, key), on the maps `cache` of a manager of type `type` at
\* time `t`.
CacheGet(type, cache, cat, key, t) ==
    LET data == MapOf(cache, cat)[key]
    IN  IF type = "memory" THEN data
        ELSE IF type = "json"
        THEN IF Truthy(data) /\ data.expire > t THEN data.value ELSE Null
        ELSE Null

\* The item set() stores.
CacheItem(value, ttlSeconds, t) == [value |-> value, expire |-> t + ttlSeconds * 1000]

\* The maps after set(category, key, value, ttlSeconds) at time t.
CacheSetMaps(type, cache, cat, key, value, ttlSeconds, t) ==
    IF type \in {"memory", "json"}
    THEN IF cat = "search"
         THEN [cache EXCEPT !.search[key] = CacheItem(value, ttlSeconds, t)]
         ELSE [cache EXCEPT !.detail[key] = CacheItem(value, ttlSeconds, t)]
    ELSE cache

\* How a saveDisk() can end: both documents written, or a writeFileSync that
\* throws (the first: nothing written; the second: the search document
\* written, the detail document not).
DiskOutcomes == { "ok", "searchWriteThrows", "detailWriteThrows" }

\* saveDisk(): the documents afterwards.
SaveDiskSearchOnly(type, cache, disk, outcome) ==
    IF type = "json"
    THEN [search |-> IF outcome = "searchWriteThrows" THEN disk.search
                     ELSE Stringify(cache.search),
          detail |-> disk.detail]
    ELSE disk

SaveDisk(type, cache, disk, outcome) ==
    IF type = "json"
    THEN [search |-> IF outcome = "searchWriteThrows" THEN disk.search
                     ELSE Stringify(cache.search),
          detail |-> IF outcome = "ok" THEN Stringify(cache.detail)
                     ELSE disk.detail]
    ELSE disk

\* Whether set() returns normally: on the json backend saveDisk() may throw.
SetReturns(type, outcome) == type # "json" \/ outcome = "ok"

CurCache == [search |-> searchCache, detail |-> detailCache]

CurDisk == [search |-> searchDisk, detail |-> detailDisk]

\* cacheManager.set(...) as a state change; `outcome` is how saveDisk ends.
DoCacheSet(cat, key, value, ttlSeconds, outcome) ==
    LET c == CacheSetMaps(cacheType, CurCache, cat, key, value, ttlSeconds, now)
        d == SaveDisk(cacheType, c, CurDisk, outcome)
    IN  /\ searchCache' = c.search
        /\ detailCache' = c.detail
        /\ searchDisk' = d.search
        /\ detailDisk' = d.detail
        /\ writeFailed' = (writeFailed \/ ~SetReturns(cacheType, outcome))
        /\ cacheType' = cacheType

\* new CacheManager(CACHE_TYPE): empty maps (no cache documents on disk yet).
CacheInit ==
    /\ cacheType \in CacheTypes
    /\ searchCache = EmptyMap
    /\ detailCache = EmptyMap
    /\ searchDisk = {}
    /\ detailDisk = {}
    /\ writeFailed = FALSE
    /\ setLog = [ck \in Categories \X AllKeys |-> Undefined]
    /\ lastGet = Undefined
    /\ now = 0

\* Time passes.
Tick ==
    /\ now < MaxTicks * TickMs
    /\ now' = now + TickMs

\* ------------------------------------------------------------------------
\* The eviction sweep: the setTimeout callback of cleanCacheIfNeeded
\* ------------------------------------------------------------------------

\* Sizes are counted in MiB: the byte budget is MAX_CACHE_SIZE_MB MiB.
MAX_CACHE_SIZE_MB == 1024

\* A listing is what traverseDir collects: file -> [size, time].
RECURSIVE SumSizes(_, _)
SumSizes(listing, files) ==
    IF files = {} THEN 0
    ELSE LET f == CHOOSE x \in files : TRUE
         IN  listing[f].size + SumSizes(listing, files \ {f})

\* totalSize
ListingTotal(listing) == SumSizes(listing, DOMAIN listing)

\* files.sort((a, b) => a.time - b.time): the files in ascending order of
\* time.  Files of equal time keep the order readdirSync listed them in, which
\* the platform chooses: every order of them is possible.
SortedOrdersDescending(listing) ==
    { o \in [1 .. Cardinality(DOMAIN listing) -> DOMAIN listing] :
        /\ \A i, j \in DOMAIN o : i # j => o[i] # o[j]
        /\ \A i, j \in DOMAIN o : i < j => listing[o[i]].time >= listing[o[j]].time }

SortedOrders(listing) ==
    { o \in [1 .. Cardinality(DOMAIN listing) -> DOMAIN listing] :
        /\ \A i, j \in DOMAIN o : i # j => o[i] # o[j]
        /\ \A i, j \in DOMAIN o : i < j => listing[o[i]].time <= listing[o[j]].time }

\* deletedSize >= targetDelete, where targetDelete = totalSize - maxBytes * 0.9
TargetReachedFull(deletedSize, totalSize) ==
    deletedSize * 10 >= totalSize * 10 - MAX_CACHE_SIZE_MB * 10

TargetReached(deletedSize, totalSize) ==
    deletedSize * 10 >= totalSize * 10 - MAX_CACHE_SIZE_MB * 9

\* for (const file of files) { if (deletedSize >= targetDelete) break;
\*   try { unlinkSync; deletedSize += file.size } catch { log } }
\* `failing` are the files whose unlinkSync throws.
RECURSIVE DeleteLoop(_, _, _, _, _)
DeleteLoop(listing, order, failing, i, acc) ==
    IF i > Len(order) \/ TargetReached(acc.deletedSize, acc.total) THEN acc
    ELSE LET f == order[i]
         IN  IF f \in failing
             THEN DeleteLoop(listing, order, failing, i + 1,
                             [acc EXCEPT !.attempted = @ \cup {f}])
             ELSE DeleteLoop(listing, order, failing, i + 1,
                             [acc EXCEPT !.attempted = @ \cup {f},
                                         !.deleted = @ \cup {f},
                                         !.deletedSize = @ + listing[f].size])

\* The sweep on a listing: nothing when the total is within the budget,
\* else the delete loop over the sorted files.
SweepOutcome(listing, order, failing) ==
    LET start == [total |-> ListingTotal(listing), deletedSize |-> 0,
                  attempted |-> {}, deleted |-> {}]
    IN  IF start.total > MAX_CACHE_SIZE_MB
        THEN DeleteLoop(listing, order, failing, 1, start)
        ELSE start

\* What lastSweep records of a sweep.
SweepRecord(listing, order, failing, out) ==
    [ran |-> TRUE, listing |-> listing, order |-> order, failing |-> failing,
     total |-> out.total, deletedSize |-> out.deletedSize,
     attempted |-> out.attempted, deleted |-> out.deleted,
     vanished |-> {}, aborted |-> FALSE]

\* What lastSweep records of a sweep whose walk threw: fs.statSync of a
\* listed file that is gone throws ENOENT out of traverseDir, and the catch
\* around the whole callback logs it; nothing is totalled or deleted.
AbortedSweep(listing, vanished) ==
    [ran |-> TRUE, listing |-> listing, order |-> <<>>, failing |-> {},
     total |-> 0, deletedSize |-> 0, attempted |-> {}, deleted |-> {},
     vanished |-> vanished, aborted |-> TRUE]

NoSweep == [ran |-> FALSE]

\* ------------------------------------------------------------------------
\* SweepSpec: the sweep on arbitrary cache directories
\* ------------------------------------------------------------------------

FileIds == 1 .. MaxFiles

NoFile == [size |-> 0, time |-> 0]

FileStats == [size : { k * SizeStepMB : k \in 0 .. MaxSizeSteps },
              time : 1 .. MaxFileTime]

\* traverseDir(IMAGE_CACHE_DIR) on the directory of SweepSpec.
DirListing == [f \in { x \in FileIds : dir[x] # NoFile } |-> dir[f]]

SweepDirInit == dir \in [FileIds -> {NoFile} \cup FileStats]

\* The sweep runs on the directory, once in a behaviour: every directory is
\* an initial state, so a second sweep would reach nothing new.
SweepDir ==
    /\ ~lastSweep.ran
    /\ LET listing == DirListing
       IN  \E order \in SortedOrders(listing), failing \in SUBSET (DOMAIN listing) :
             LET out == SweepOutcome(listing, order, failing)
             IN  /\ dir' = [f \in FileIds |->
                              IF f \in out.deleted THEN NoFile ELSE dir[f]]
                 /\ lastSweep' = SweepRecord(listing, order, failing, out)

\* The sweep runs on a directory that another process works on too: the
\* files `vanished` were listed by readdirSync and are removed before the
\* walk reaches them with statSync.
RacySweepDir ==
    /\ ~lastSweep.ran
    /\ LET listing == DirListing
       IN  \E vanished \in SUBSET (DOMAIN listing) :
             IF vanished # {}
             THEN /\ dir' = [f \in FileIds |->
                               IF f \in vanished THEN NoFile ELSE dir[f]]
                  /\ lastSweep' = AbortedSweep(listing, vanished)
             ELSE \E order \in SortedOrders(listing),
                     failing \in SUBSET (DOMAIN listing) :
                    LET out == SweepOutcome(listing, order, failing)
                    IN  /\ dir' = [f \in FileIds |->
                                     IF f \in out.deleted THEN NoFile ELSE dir[f]]
                        /\ lastSweep' = SweepRecord(listing, order, failing, out)

\* ------------------------------------------------------------------------
\* The image cache store: app.get('/api/tmdb-image/:size/:filename')
\* ------------------------------------------------------------------------

\* A size or a file name is a sequence of characters (a size is written as
\* one symbol); a path is the sequence of its segments below IMAGE_CACHE_DIR.
allowSizes == { <<"w300">>, <<"w342">>, <<"w500">>, <<"w780">>, <<"w1280">>,
                <<"original">> }

\* The sizes and file names the requests of the model ask for.
ReqSizes == { <<"w500">>, <<"w9">> }

ReqNames == { <<"a">>, <<"b">>, <<".">>, <<".", ".">>, <<".", ".", "/", "a">> }

\* The characters of the model that [a-zA-Z0-9_\-\.] accepts.
AllowedChars == { "a", "b", "0", "_", "-", "." }

\* /^[a-zA-Z0-9_\-\.]+$/.test(filename)
NameMatches(name) == Len(name) >= 1 /\ \A i \in 1 .. Len(name) : name[i] \in AllowedChars

\* !allowSizes.includes(size) || !regex.test(filename): the request is refused.
Refused(size, name) == size \notin allowSizes \/ ~NameMatches(name)

Dot == <<".">>

DotDot == <<".", ".">>

\* path.join normalises its result: "." segments vanish, ".." removes the
\* segment before it (above IMAGE_CACHE_DIR it stays as "..").  The names
\* that reach path.join hold no "/", so each is one segment.
RECURSIVE Normalize(_, _)
Normalize(stack, segs) ==
    IF segs = <<>> THEN stack
    ELSE LET h == Head(segs)
         IN  IF h = Dot THEN Normalize(stack, Tail(segs))
             ELSE IF h = DotDot
             THEN IF stack = <<>> \/ stack[Len(stack)] = DotDot
                  THEN Normalize(Append(stack, h), Tail(segs))
                  ELSE Normalize(SubSeq(stack, 1, Len(stack) - 1), Tail(segs))
             ELSE Normalize(Append(stack, h), Tail(segs))

\* path.join(IMAGE_CACHE_DIR, size, filename), below IMAGE_CACHE_DIR
LocalPath(size, name) == Normalize(<<>>, <<size, name>>)

CacheRoot == <<>>

\* path.dirname(localPath)
Dirname(path) ==
    IF path = <<>> THEN <<DotDot>> ELSE SubSeq(path, 1, Len(path) - 1)

\* The paths the requests of the model can reach.
FsPaths ==
    { CacheRoot, Dirname(CacheRoot) }
    \cup { <<sz>> : sz \in ReqSizes \cap allowSizes }
    \cup { LocalPath(sz, n) : sz \in ReqSizes \cap allowSizes,
                              n \in { x \in ReqNames : NameMatches(x) } }

\* A node of the file system.  A file holds the chunks written to it since
\* it was created or truncated; its size reaches to the last of them.
Absent == [kind |-> "absent"]

DirNode == [kind |-> "dir"]

FileNode(chunks, mtime) == [kind |-> "file", chunks |-> chunks, mtime |-> mtime]

AllChunks == 0 .. FullLen - 1

\* fs.existsSync(path)
Exists(node) == node.kind # "absent"

\* stats.size of a file, in MiB
FileSizeMB(node) ==
    IF node.chunks = {} THEN 0
    ELSE (CHOOSE c \in node.chunks : \A d \in node.chunks : d <= c) * ChunkMB + ChunkMB

\* fs.statSync(localPath).size > 0; a directory's size is positive.
StatSizePositive(node) ==
    IF node.kind = "dir" THEN TRUE ELSE node.chunks # {}

\* fs.existsSync(localPath) && fs.statSync(localPath).size > 0
IsHit(node) == Exists(node) /\ StatSizePositive(node)

\* fs.utimesSync(localPath, now, now)
UtimesSkipped(node, t) == node

Utimes(node, t) == IF node.kind = "file" THEN [node EXCEPT !.mtime = t] ELSE node

\* CLEAN_TRIGGER_THRESHOLD
CLEAN_TRIGGER_THRESHOLD == 50

ImgReqs == 1 .. MaxImgReq

IdleImg ==
    [st |-> "idle", size |-> <<>>, name |-> <<>>, path |-> <<>>, at |-> 0,
     pos |-> 0, linked |-> FALSE, result |-> "none", served |-> {},
     fetches |-> 0, touched |-> {}, overlapped |-> FALSE, after |-> {},
     mtimeSet |-> -1, swept |-> FALSE]

\* A request is between its axios call and the end of its pipeline.
InFlight(req) == req.st \in {"fetching", "writing"}

\* The file at `path` is unlinked: the streams writing to it keep their
\* descriptor, and what they write is no longer reachable by the path.
Orphaned(reqs, path) ==
    [q \in ImgReqs |->
        IF reqs[q].st = "writing" /\ reqs[q].path = path
        THEN [reqs[q] EXCEPT !.linked = FALSE] ELSE reqs[q]]

\* The catch block: if (fs.existsSync(localPath)) fs.unlinkSync(localPath);
\* res.status(404).  unlinkSync of a directory throws out of the handler.
CatchBlock(r) ==
    LET req == ireq[r]
        node == fs[req.path]
        seen == [req EXCEPT !.st = "done",
                            !.touched = @ \cup {<<"existsSync", req.path>>}]
    IN  IF ~Exists(node)
        THEN /\ ireq' = [ireq EXCEPT ![r] = [seen EXCEPT !.result = "404"]]
             /\ fs' = fs
        ELSE IF node.kind = "dir"
        THEN /\ ireq' = [ireq EXCEPT ![r] =
                    [seen EXCEPT !.result = "threw",
                                 !.touched = @ \cup {<<"unlinkSync", req.path>>}]]
             /\ fs' = fs
        ELSE /\ ireq' = [Orphaned(ireq, req.path) EXCEPT ![r] =
                    [seen EXCEPT !.result = "404",
                                 !.touched = @ \cup {<<"unlinkSync", req.path>>}]]
             /\ fs' = [fs EXCEPT ![req.path] = Absent]

\* A request arrives, later than the requests before it.  A refused one is
\* answered 400.  A hit refreshes the file's times and sends it.  A miss
\* makes the directory and calls axios.
ImgStart(r) ==
    /\ ireq[r].st = "idle"
    /\ \A q \in ImgReqs : q < r => ireq[q].st # "idle"
    /\ now' = now + TickMs
    /\ \E size \in ReqSizes, name \in ReqNames :
        IF Refused(size, name)
        THEN /\ ireq' = [ireq EXCEPT ![r] =
                    [@ EXCEPT !.st = "done", !.size = size, !.name = name,
                              !.at = now', !.result = "400"]]
             /\ fs' = fs
        ELSE
          LET path == LocalPath(size, name)
              node == fs[path]
              localDir == Dirname(path)
              others == { q \in ImgReqs : InFlight(ireq[q]) /\ ireq[q].path = path }
              marked == [q \in ImgReqs |->
                            IF q \in others
                            THEN [ireq[q] EXCEPT !.overlapped = TRUE] ELSE ireq[q]]
              req == [ireq[r] EXCEPT
                         !.size = size, !.name = name, !.path = path, !.at = now',
                         !.overlapped = others # {},
                         !.after = { q \in ImgReqs :
                                        ireq[q].st = "done" /\ ~ireq[q].swept },
                         !.touched = {<<"existsSync", path>>}]
          IN  IF IsHit(node)
              THEN /\ fs' = [fs EXCEPT ![path] = Utimes(node, now')]
                   /\ ireq' = [marked EXCEPT ![r] =
                        [req EXCEPT
                            !.st = "done",
                            !.touched = @ \cup {<<"statSync", path>>,
                                                <<"utimesSync", path>>,
                                                <<"sendFile", path>>},
                            !.result = IF node.kind = "file" THEN "hit"
                                       ELSE "sendError",
                            !.served = IF node.kind = "file" THEN node.chunks
                                       ELSE {},
                            !.mtimeSet = IF fs'[path].kind = "file"
                                         THEN fs'[path].mtime ELSE -1]]
              ELSE /\ fs' = IF Exists(fs[localDir]) THEN fs
                            ELSE [fs EXCEPT ![localDir] = DirNode]
                   /\ ireq' = [marked EXCEPT ![r] =
                        [req EXCEPT
                            !.st = "fetching", !.fetches = @ + 1,
                            !.touched = IF Exists(node)
                                        THEN @ \cup {<<"statSync", path>>}
                                        ELSE @]]
    /\ UNCHANGED <<newItemCount, sweepTimers, lastSweep, searchVars, dir>>

\* await axios(...) throws: timeout, non-2xx, transport error.
ImgFetchFails(r) ==
    /\ ireq[r].st = "fetching"
    /\ CatchBlock(r)
    /\ UNCHANGED <<newItemCount, sweepTimers, lastSweep, now, searchVars, dir>>

\* await axios(...) returns the response stream; fs.createWriteStream opens
\* localPath with flag 'w': an existing file is truncated, a missing one is
\* created; on a directory, or below something that is no directory, the
\* open fails, the pipeline rejects and the catch block runs.
ImgFetchReturns(r) ==
    /\ ireq[r].st = "fetching"
    /\ LET req == ireq[r]
           node == fs[req.path]
           parent == fs[Dirname(req.path)]
       IN  IF node.kind = "dir" \/ parent.kind # "dir"
           THEN CatchBlock(r)
           ELSE /\ fs' = [fs EXCEPT ![req.path] = FileNode({}, now)]
                /\ ireq' = [ireq EXCEPT ![r] =
                      [req EXCEPT !.st = "writing", !.pos = 0, !.linked = TRUE,
                                  !.touched = @ \cup {<<"createWriteStream", req.path>>}]]
    /\ UNCHANGED <<newItemCount, sweepTimers, lastSweep, now, searchVars, dir>>

\* The pipeline writes the next chunk at the stream's own position.
ImgWriteChunk(r) ==
    /\ ireq[r].st = "writing"
    /\ ireq[r].pos < FullLen
    /\ LET req == ireq[r]
       IN  /\ fs' = IF req.linked
                    THEN [fs EXCEPT ![req.path] =
                            FileNode(@.chunks \cup {req.pos}, now)]
                    ELSE fs
           /\ ireq' = [ireq EXCEPT ![r].pos = @ + 1]
    /\ UNCHANGED <<newItemCount, sweepTimers, lastSweep, now, searchVars, dir>>

\* The pipeline rejects part-way: the download breaks or a write fails.
ImgWriteFails(r) ==
    /\ ireq[r].st = "writing"
    /\ CatchBlock(r)
    /\ UNCHANGED <<newItemCount, sweepTimers, lastSweep, now, searchVars, dir>>

\* cleanCacheIfNeeded(): the counter, and the timer of a sweep at the threshold.
CountAfterInsertLate(n) == IF n + 1 <= CLEAN_TRIGGER_THRESHOLD THEN n + 1 ELSE 0

CountAfterInsert(n) == IF n + 1 < CLEAN_TRIGGER_THRESHOLD THEN n + 1 ELSE 0

SweepScheduled(n) == ~(n + 1 < CLEAN_TRIGGER_THRESHOLD)

\* await pipeline(...) resolves: cleanCacheIfNeeded(), then res.sendFile.
ImgWriteDone(r) ==
    /\ ireq[r].st = "writing"
    /\ ireq[r].pos = FullLen
    /\ LET req == ireq[r]
           node == fs[req.path]
       IN  ireq' = [ireq EXCEPT ![r] =
              [req EXCEPT !.st = "done",
                          !.touched = @ \cup {<<"sendFile", req.path>>},
                          !.result = IF node.kind = "file" THEN "sent"
                                     ELSE "sendError",
                          !.served = IF node.kind = "file" THEN node.chunks
                                     ELSE {}]]
    /\ newItemCount' = CountAfterInsert(newItemCount)
    /\ sweepTimers' = IF SweepScheduled(newItemCount)
                      THEN sweepTimers + 1 ELSE sweepTimers
    /\ UNCHANGED <<fs, lastSweep, now, searchVars, dir>>

\* traverseDir(IMAGE_CACHE_DIR): the files below the root (directories are
\* descended, not listed), with their sizes and mtimes.
FsListing ==
    [p \in { x \in FsPaths : x # Dirname(CacheRoot) /\ fs[x].kind = "file" } |->
        [size |-> FileSizeMB(fs[p]), time |-> fs[p].mtime]]

\* The timer of a sweep fires.
SweepRun ==
    /\ sweepTimers > 0
    /\ sweepTimers' = sweepTimers - 1
    /\ LET listing == FsListing
       IN  \E order \in SortedOrders(listing), failing \in SUBSET (DOMAIN listing) :
             LET out == SweepOutcome(listing, order, failing)
                 RECURSIVE OrphanAll(_, _)
                 OrphanAll(reqs, paths) ==
                    IF paths = {} THEN reqs
                    ELSE LET p == CHOOSE x \in paths : TRUE
                         IN  OrphanAll(Orphaned(reqs, p), paths \ {p})
             IN  /\ fs' = [p \in FsPaths |->
                            IF p \in out.deleted THEN Absent ELSE fs[p]]
                 /\ ireq' = [q \in ImgReqs |->
                        LET req == OrphanAll(ireq, out.deleted)[q]
                        IN  IF req.st = "done" /\ req.path \in out.deleted
                            THEN [req EXCEPT !.swept = TRUE] ELSE req]
                 /\ lastSweep' = SweepRecord(listing, order, failing, out)
    /\ UNCHANGED <<newItemCount, now, searchVars, dir>>

\* The image cache when the process starts: the root exists
\* (mkdirSync at start-up), complete files of earlier runs may lie below it,
\* and the counter is at any value it takes between requests (0 at start-up,
\* CLEAN_TRIGGER_THRESHOLD - 1 after that many insertions).
OldFiles ==
    { LocalPath(sz, n) : sz \in ReqSizes \cap allowSizes,
                         n \in { x \in ReqNames : NameMatches(x) /\ x \notin {Dot, DotDot} } }

ImageInit ==
    /\ \E old \in SUBSET OldFiles :
         fs = [p \in FsPaths |->
                 IF p \in {CacheRoot, Dirname(CacheRoot)} THEN DirNode
                 ELSE IF p \in old THEN FileNode(AllChunks, 0)
                 ELSE IF \E f \in old : Dirname(f) = p THEN DirNode
                 ELSE Absent]
    /\ ireq = [r \in ImgReqs |-> IdleImg]
    /\ newItemCount \in {0, CLEAN_TRIGGER_THRESHOLD - 1}
    /\ sweepTimers = 0
    /\ lastSweep = NoSweep

\* No image request and no sweep: the image part of a specification that
\* is about something else.
ImageQuiet ==
    /\ fs = [p \in FsPaths |-> IF p \in {CacheRoot, Dirname(CacheRoot)}
                               THEN DirNode ELSE Absent]
    /\ ireq = [r \in ImgReqs |-> IdleImg]
    /\ newItemCount = 0
    /\ sweepTimers = 0
    /\ lastSweep = NoSweep
    /\ dir = [f \in FileIds |-> NoFile]

\* ------------------------------------------------------------------------
\* Streaming search: app.get('/api/search')
\* ------------------------------------------------------------------------

\* getDB().sites, in the order sites.map visits them; a site's name and api
\* are determined by its key.
Sites == << <<"a">>, <<"a", "_", "b">> >>

\* TTL of a search entry, in seconds.
SEARCH_TTL == 600

SearchReqs == 1 .. MaxSearchReq

\* An item of the list a site's api returns for a query (a keyword or an
\* id): what it holds depends on the site and on the query.
UpstreamItem(site, query) ==
    [vod_id |-> 1, vod_name |-> <<site, query>>, vod_play_url |-> "u"]

\* What response.data can be: no list, an empty list, a list of one item.
UpstreamData(site, query) ==
    { [total |-> 0], [list |-> <<>>], [list |-> <<UpstreamItem(site, query)>>] }

\* How an axios.get ends: it throws (timeout, non-2xx, transport error) or
\* returns a response with the given data.
UpstreamOutcomes(site, query) ==
    { [ok |-> FALSE, data |-> Undefined] }
    \cup { [ok |-> TRUE, data |-> d] : d \in UpstreamData(site, query) }

\* { ...item, site_key: site.key, site_name: site.name }
Decorate(item, site) ==
    [f \in (DOMAIN item) \cup {"site_key"} |->
        IF f = "site_key" THEN site ELSE item[f]]

\* cached.list.map(item => ({ ...item, site_key, site_name }))
DecorateList(list, site) == [i \in 1 .. Len(list) |-> Decorate(list[i], site)]

\* data.list ? data.list.map(item => ({ vod_id, ..., vod_play_url, site_key,
\* site_name })) : []
MapUpstreamList(data, site) ==
    IF HasProp(data, "list")
    THEN [i \in 1 .. Len(data.list) |->
            [vod_id |-> data.list[i].vod_id,
             vod_name |-> data.list[i].vod_name,
             vod_play_url |-> data.list[i].vod_play_url,
             site_key |-> site]]
    ELSE <<>>

\* res.write(`data: ${JSON.stringify(items)}\n\n`)
DataEvent(items) == [event |-> "message", data |-> items]

\* res.write('event: done\ndata: {}\n\n')
DoneEvent == [event |-> "done", data |-> <<>>]

\* A request that has not arrived.
IdleReq ==
    [st |-> "idle", wd |-> <<>>,
     branch |-> [s \in SiteKeys |-> "none"],
     fresh |-> [s \in SiteKeys |-> Undefined],
     calls |-> [s \in SiteKeys |-> 0],
     upstream |-> [s \in SiteKeys |-> "none"],
     events |-> <<>>, closed |-> FALSE, atClose |-> -1]

SearchInit == sreq = [r \in SearchReqs |-> IdleReq]

\* res.write(...): the event reaches the client; on a transport the client
\* has closed the write returns false and nothing is sent.
Write(req, ev) ==
    IF req.closed THEN req ELSE [req EXCEPT !.events = Append(@, ev)]

\* A branch of searchPromises has settled (its promise is resolved).
Settled(b) == b \in {"hit", "fetched", "caught"}

\* await Promise.all(searchPromises), then the done event and res.end().
AwaitAllRace(req) ==
    IF \E s \in SiteKeys : Settled(req.branch[s])
    THEN Write([req EXCEPT !.st = "ended"], DoneEvent)
    ELSE req

AwaitAllConnected(req) ==
    IF req.closed THEN req
    ELSE IF \A s \in SiteKeys : Settled(req.branch[s])
    THEN Write([req EXCEPT !.st = "ended"], DoneEvent)
    ELSE req

AwaitAll(req) ==
    IF \A s \in SiteKeys : Settled(req.branch[s])
    THEN Write([req EXCEPT !.st = "ended"], DoneEvent)
    ELSE req

\* The body of the async function of one site up to its first await: the
\* cache lookup, and on a hit the write of the cached list.
BranchStart(req, site) ==
    LET cacheKey == SearchCacheKey(site, req.wd)
        cached == CacheGet(cacheType, CurCache, "search", cacheKey, now)
        entry == searchCache[cacheKey]
        looked == [req EXCEPT !.fresh[site] =
                      IF Truthy(entry) /\ entry.expire > now
                      THEN entry.value ELSE Undefined]
    IN  IF Truthy(cached) /\ HasProp(cached, "list")
        THEN LET items == DecorateList(cached.list, site)
             IN  IF Len(items) > 0
                 THEN Write([looked EXCEPT !.branch[site] = "hit"], DataEvent(items))
                 ELSE [looked EXCEPT !.branch[site] = "hit"]
        ELSE [looked EXCEPT !.branch[site] = "fetching", !.calls[site] = @ + 1]

\* sites.map(async (site) => ...): the branches start in the order of sites.
RECURSIVE StartBranches(_, _)
StartBranches(req, i) ==
    IF i > Len(Sites) THEN req
    ELSE StartBranches(BranchStart(req, Sites[i]), i + 1)

\* GET /api/search?wd=...&stream=...: a request arrives.  Without a keyword
\* it is answered 400, without stream=true with a JSON error; otherwise every
\* branch starts, and the response ends at once when all of them were hits.
StreamStart(r) ==
    /\ sreq[r].st = "idle"
    /\ \A q \in SearchReqs : q < r => sreq[q].st # "idle"
    /\ \E wd \in Keywords \cup {<<>>}, stream \in BOOLEAN :
         sreq' = [sreq EXCEPT ![r] =
            IF wd = <<>> THEN [@ EXCEPT !.st = "status400"]
            ELSE IF ~stream THEN [@ EXCEPT !.st = "useStream", !.wd = wd]
            ELSE AwaitAll(StartBranches(
                    [@ EXCEPT !.st = "open", !.wd = wd], 1))]
    /\ UNCHANGED <<now, cacheVars, cacheHist, areq, imageVars, dir>>

\* The axios.get of one branch ends.  On success the mapped list is cached for
\* SEARCH_TTL seconds and, when not empty, written; a throw of axios.get or of
\* cacheManager.set is caught and the branch resolves with [].
StreamFetchDone(r, site) ==
    /\ sreq[r].st = "open"
    /\ sreq[r].branch[site] = "fetching"
    /\ \E out \in UpstreamOutcomes(site, sreq[r].wd), disk \in DiskOutcomes :
        LET req == sreq[r]
            list == MapUpstreamList(out.data, site)
            got == [req EXCEPT !.upstream[site] =
                        IF ~out.ok THEN "failed"
                        ELSE IF Len(list) > 0 THEN "nonempty" ELSE "empty"]
        IN  IF out.ok
            THEN /\ DoCacheSet("search", SearchCacheKey(site, req.wd),
                               [list |-> list], SEARCH_TTL, disk)
                 /\ sreq' = [sreq EXCEPT ![r] =
                       IF SetReturns(cacheType, disk)
                       THEN AwaitAll(
                               IF Len(list) > 0
                               THEN Write([got EXCEPT !.branch[site] = "fetched"],
                                          DataEvent(list))
                               ELSE [got EXCEPT !.branch[site] = "fetched"])
                       ELSE AwaitAll([got EXCEPT !.branch[site] = "caught"])]
            ELSE /\ sreq' = [sreq EXCEPT ![r] =
                                AwaitAll([got EXCEPT !.branch[site] = "caught"])]
                 /\ UNCHANGED cacheVars
    /\ UNCHANGED <<now, cacheHist, areq, imageVars, dir>>

\* The client of an open streaming search closes the connection.  The
\* handler listens to no 'close' event: its branches and its Promise.all go
\* on as before.  atClose keeps the number of events the client had got.
ClientDisconnect(r) ==
    /\ sreq[r].st = "open"
    /\ ~sreq[r].closed
    /\ sreq' = [sreq EXCEPT ![r].closed = TRUE, ![r].atClose = Len(sreq[r].events)]
    /\ UNCHANGED <<now, cacheVars, cacheHist, areq, imageVars, dir>>

\* ------------------------------------------------------------------------
\* Single-source search and detail lookup: app.post('/api/search'),
\* app.get('/api/detail'), app.post('/api/detail')
\* ------------------------------------------------------------------------

\* TTL of a detail entry, in seconds.
DetailTtlOfSearch == SEARCH_TTL

DETAIL_TTL == 3600

ApiReqs == 1 .. MaxApiReq

ApiKinds == { "postSearch", "getDetail", "postDetail" }

\* A site key that no site of the directory has.
UnknownSite == <<"z">>

\* data.list ? data.list.map(item => ({ vod_id, vod_name, vod_pic,
\* vod_remarks, vod_year, type_name })) : []
MapReducedList(data) ==
    IF HasProp(data, "list")
    THEN [i \in 1 .. Len(data.list) |->
            [vod_id |-> data.list[i].vod_id,
             vod_name |-> data.list[i].vod_name]]
    ELSE <<>>

\* A request that has not arrived.
IdleApi ==
    [st |-> "idle", kind |-> "none", siteKey |-> <<>>, arg |-> <<>>,
     status |-> 0, body |-> Undefined, calls |-> 0, upstream |-> "none"]

ApiInit == areq = [r \in ApiReqs |-> IdleApi]

\* The cache category, the cache key and the query of a handler.
ApiCategory(kind) == IF kind = "postSearch" THEN "search" ELSE "detail"

ApiCacheKey(kind, siteKey, arg) ==
    IF kind = "postSearch" THEN SearchCacheKey(siteKey, arg)
    ELSE DetailCacheKey(siteKey, arg)

ApiArgs(kind) == IF kind = "postSearch" THEN Keywords ELSE Ids

\* if (cached) return res.json(...): GET /api/detail wraps the cached value
\* in a list, the POST handlers send it as it is.
HitBody(kind, cached) == IF kind = "getDetail" THEN [list |-> <<cached>>] ELSE cached

\* The body sent with the fetched detail.
DetailBody(kind, detail) == IF kind = "getDetail" THEN [list |-> <<detail>>] ELSE detail

\* res.status(404).json(...) when the upstream has no such record.
NotFoundBody(kind) ==
    IF kind = "getDetail" THEN [error |-> "Not found", list |-> <<>>]
    ELSE [error |-> "Not found"]

\* res.status(500).json(...) of the catch block.
FailBody(kind) ==
    IF kind = "postSearch" THEN [error |-> "Search failed"]
    ELSE IF kind = "getDetail" THEN [error |-> "Detail fetch failed", list |-> <<>>]
    ELSE [error |-> "Detail fetch failed"]

\* data.list && data.list.length > 0
HasItems(data) == HasProp(data, "list") /\ Len(data.list) > 0

\* A request arrives at one of the three handlers: an unknown site is
\* answered 404, a truthy cache lookup is answered from the cache, otherwise
\* the handler calls axios.get.
ApiStart(r) ==
    /\ areq[r].st = "idle"
    /\ \A q \in ApiReqs : q < r => areq[q].st # "idle"
    /\ \E kind \in ApiKinds, siteKey \in SiteKeys \cup {UnknownSite} :
        \E arg \in ApiArgs(kind) :
          LET req == [areq[r] EXCEPT !.kind = kind, !.siteKey = siteKey, !.arg = arg]
          IN  IF siteKey \notin SiteKeys
              THEN areq' = [areq EXCEPT ![r] =
                      [req EXCEPT !.st = "done", !.status = 404,
                                  !.body = [error |-> "Site not found"]]]
              ELSE
                LET cached == CacheGet(cacheType, CurCache, ApiCategory(kind),
                                       ApiCacheKey(kind, siteKey, arg), now)
                IN  IF Truthy(cached)
                    THEN areq' = [areq EXCEPT ![r] =
                            [req EXCEPT !.st = "done", !.status = 200,
                                        !.body = HitBody(kind, cached)]]
                    ELSE areq' = [areq EXCEPT ![r] =
                            [req EXCEPT !.st = "fetching", !.calls = @ + 1]]
    /\ UNCHANGED <<now, cacheVars, cacheHist, sreq, imageVars, dir>>

\* The axios.get of a handler ends.  A search caches and sends the reduced
\* list; a detail lookup caches and sends the first item of a list that has
\* one, and answers 404 otherwise; a throw of axios.get or of
\* cacheManager.set is answered 500.
ApiFetchDone(r) ==
    /\ areq[r].st = "fetching"
    /\ \E out \in UpstreamOutcomes(areq[r].siteKey, areq[r].arg), disk \in DiskOutcomes :
        LET req == areq[r]
            kind == req.kind
            key == ApiCacheKey(kind, req.siteKey, req.arg)
            got == [req EXCEPT !.st = "done",
                               !.upstream = IF ~out.ok THEN "failed"
                                            ELSE IF HasItems(out.data) THEN "nonempty"
                                            ELSE "empty"]
            sent(body) == IF SetReturns(cacheType, disk)
                          THEN [got EXCEPT !.status = 200, !.body = body]
                          ELSE [got EXCEPT !.status = 500, !.body = FailBody(kind)]
        IN  IF ~out.ok
            THEN /\ areq' = [areq EXCEPT ![r] =
                                [got EXCEPT !.status = 500, !.body = FailBody(kind)]]
                 /\ UNCHANGED cacheVars
            ELSE IF kind = "postSearch"
            THEN LET result == [list |-> MapReducedList(out.data)]
                 IN  /\ DoCacheSet("search", key, result, SEARCH_TTL, disk)
                     /\ areq' = [areq EXCEPT ![r] = sent(result)]
            ELSE IF HasItems(out.data)
            THEN LET detail == out.data.list[1]
                 IN  /\ DoCacheSet("detail", key, detail, DETAIL_TTL, disk)
                     /\ areq' = [areq EXCEPT ![r] = sent(DetailBody(kind, detail))]
            ELSE /\ areq' = [areq EXCEPT ![r] =
                                [got EXCEPT !.status = 404, !.body = NotFoundBody(kind)]]
                 /\ UNCHANGED cacheVars
    /\ UNCHANGED <<now, cacheHist, sreq, imageVars, dir>>

\* ------------------------------------------------------------------------
\* SearchSpec: the streaming searches alone
\* ------------------------------------------------------------------------

SearchTick ==
    /\ Tick
    /\ UNCHANGED <<cacheVars, cacheHist, sreq, areq, imageVars, dir>>

SearchNext ==
    \/ \E r \in SearchReqs : StreamStart(r)
    \/ \E r \in SearchReqs, site \in SiteKeys : StreamFetchDone(r, site)
    \/ SearchTick

SearchSpecInit ==
    /\ CacheInit
    /\ SearchInit
    /\ ApiInit
    /\ ImageQuiet

SearchSpec == SearchSpecInit /\ [][SearchNext]_vars

\* Every axios.get ends: it is issued with timeout: 8000.
FairSearchSpec ==
    /\ SearchSpec
    /\ \A r \in SearchReqs, site \in SiteKeys : WF_vars(StreamFetchDone(r, site))

\* ------------------------------------------------------------------------
\* Claims about the streaming search (checked under FairSearchSpec)
\* ------------------------------------------------------------------------

\* The positions of a response's events of one kind.
EventsOfKind(req, kind) ==
    { i \in 1 .. Len(req.events) : req.events[i].event = kind }

\* The positions of the data events that carry a site's items.
DataEventsOf(req, site) ==
    { i \in EventsOfKind(req, "message") :
        /\ Len(req.events[i].data) > 0
        /\ req.events[i].data[1].site_key = site }

\* The site's branch ended with a non-empty list: a cached one or a fetched one.
HasNonEmptyList(req, site) ==
    \/ req.branch[site] = "hit" /\ Len(req.fresh[site].list) > 0
    \/ req.branch[site] = "fetched" /\ req.upstream[site] = "nonempty"

C1_EventsWellFormed ==
    \A r \in SearchReqs :
        LET req == sreq[r]
            data == EventsOfKind(req, "message")
            done == EventsOfKind(req, "done")
        IN  /\ Cardinality(data) <= Len(Sites)
            /\ \A i \in data : \E site \in SiteKeys : i \in DataEventsOf(req, site)
            /\ \A site \in SiteKeys :
                  /\ Cardinality(DataEventsOf(req, site)) <= 1
                  /\ DataEventsOf(req, site) # {} => HasNonEmptyList(req, site)
            /\ Cardinality(done) <= 1
            /\ done # {} =>
                  /\ done = { Len(req.events) }
                  /\ \A site \in SiteKeys : Settled(req.branch[site])
            /\ req.st = "ended" <=> done # {}
            /\ req.st \in {"idle", "status400", "useStream"} => req.events = <<>>

\* C1: streaming search completeness and ordering.  Whatever the outcomes of
\* the sources, a response holds at most one data event per source (so at most
\* N), each non-empty and only for a source whose list is not empty; the done
\* event is written at most once, only when every branch has settled, and
\* nothing is written after it; and every streaming search that was started
\* ends with its done event.
C1_StreamCompleteness ==
    /\ []C1_EventsWellFormed
    /\ \A r \in SearchReqs : (sreq[r].st = "open") ~> (sreq[r].st = "ended")

\* Witness of C1: a search has ended after a cache hit that was written and
\* a fetch that failed.
C1_Witness ==
    \E r \in SearchReqs, hit \in SiteKeys, bad \in SiteKeys :
        /\ sreq[r].st = "ended"
        /\ sreq[r].branch[hit] = "hit"
        /\ DataEventsOf(sreq[r], hit) # {}
        /\ sreq[r].upstream[bad] = "failed"
        /\ Len(sreq[r].events) = 2

\* C2: streaming search fault isolation.  Whatever happens to the other
\* sources, a source whose upstream call succeeded with a non-empty list has
\* its data event in the response by the time the response ends.  On the json
\* backend a throwing cache write drops the event, so TLC refutes this.
C2_SucceededSourceIsEmitted ==
    \A r \in SearchReqs, site \in SiteKeys :
        (sreq[r].st = "ended" /\ sreq[r].upstream[site] = "nonempty")
            => DataEventsOf(sreq[r], site) # {}

\* C3: cache-first search.  For every backend, a branch that found an
\* unexpired entry under its key makes no upstream call and, when the cached
\* list is not empty, writes it (decorated with the site) as a data event.
\* On the memory backend the lookup never counts as a hit, so TLC refutes this.
C3_FreshEntryIsServed ==
    \A r \in SearchReqs, site \in SiteKeys :
        LET req == sreq[r]
        IN  (req.st \in {"open", "ended"} /\ req.fresh[site] # Undefined)
            => /\ req.calls[site] = 0
               /\ Len(req.fresh[site].list) > 0 =>
                    \E i \in 1 .. Len(req.events) :
                        req.events[i] =
                            DataEvent(DecorateList(req.fresh[site].list, site))

\* The requests and sites whose upstream call stored under `key`.
FetchesInto(key) ==
    { rs \in SearchReqs \X SiteKeys :
        /\ sreq[rs[1]].upstream[rs[2]] \in {"empty", "nonempty"}
        /\ SearchCacheKey(rs[2], sreq[rs[1]].wd) = key }

\* C11: empty search results are cached but not emitted.  A source whose
\* upstream call succeeded with an empty or missing list has no data event in
\* the response, and the cache holds an entry under its key, set with a TTL
\* of 600 seconds, whose list is empty unless a fetch with results stored
\* under the key since; and a streaming search that finds an unexpired
\* empty-list entry makes no upstream call to that source and writes no data
\* event for it.  On the memory backend the entry is never found again, so
\* TLC refutes this.
C11_EmptyResultIsCached ==
    \A r \in SearchReqs, site \in SiteKeys :
        LET req == sreq[r]
            key == SearchCacheKey(site, req.wd)
            entry == searchCache[key]
        IN  /\ req.upstream[site] = "empty" =>
                /\ DataEventsOf(req, site) = {}
                /\ entry # Undefined
                /\ entry.expire - 600 * 1000 \in 0 .. now
                /\ \/ entry.value = [list |-> <<>>]
                   \/ \E rs \in FetchesInto(key) :
                         sreq[rs[1]].upstream[rs[2]] = "nonempty"
            /\ (req.st \in {"open", "ended"} /\ req.fresh[site] = [list |-> <<>>]) =>
                /\ req.calls[site] = 0
                /\ DataEventsOf(req, site) = {}

\* C20: a cache write failure does not suppress a source's results.  On the
\* json backend, a source whose upstream call succeeded with a non-empty list
\* has, once its branch has settled, exactly one data event in the response
\* of a connected client, and its branch did not end in the catch block,
\* also when the cache write failed.  cacheManager.set throws inside the
\* try, before the write of the event, so TLC refutes this.
C20_WriteFailureKeepsResults ==
    \A r \in SearchReqs, site \in SiteKeys :
        LET req == sreq[r]
        IN  (cacheType = "json" /\ ~req.closed
               /\ Settled(req.branch[site]) /\ req.upstream[site] = "nonempty")
            => /\ Cardinality(DataEventsOf(req, site)) = 1
               /\ req.branch[site] = "fetched"

\* ------------------------------------------------------------------------
\* DisconnectSpec: streaming searches whose clients may close the connection
\* ------------------------------------------------------------------------

\* The streaming searches of DisconnectSpec and of ApiSpec.
ApiStreamReqs == 1 .. MaxStreamReq

DisconnectNext ==
    \/ \E r \in ApiStreamReqs : StreamStart(r)
    \/ \E r \in ApiStreamReqs, site \in SiteKeys : StreamFetchDone(r, site)
    \/ \E r \in ApiStreamReqs : ClientDisconnect(r)

DisconnectSpec == SearchSpecInit /\ [][DisconnectNext]_vars

\* C15: a client disconnect does not cancel work.  For a streaming search
\* whose client has disconnected: every branch whose upstream call succeeded
\* has its entry in the search cache (set at the time of the call's end, with
\* the TTL of a search entry); the search ends as soon as, and only when, all
\* its branches have settled; and the client has got no event since it
\* disconnected.
C15_DisconnectDoesNotCancel ==
    \A r \in SearchReqs :
        LET req == sreq[r]
        IN  req.closed =>
              /\ \A site \in SiteKeys :
                    req.upstream[site] \in {"empty", "nonempty"} =>
                      LET entry == searchCache[SearchCacheKey(site, req.wd)]
                      IN  /\ entry # Undefined
                          /\ entry.expire = now + 600 * 1000
                          /\ HasProp(entry.value, "list")
              /\ (req.st = "ended") <=> (\A site \in SiteKeys : Settled(req.branch[site]))
              /\ req.st \in {"open", "ended"}
              /\ Len(req.events) = req.atClose
              /\ EventsOfKind(req, "done") = {}

\* Witness of C15: a search has ended after its client disconnected, and a
\* branch that fetched a non-empty list after the disconnect has cached it
\* and delivered no event.
C15_Witness ==
    \E r \in SearchReqs, site \in SiteKeys :
        /\ sreq[r].closed
        /\ sreq[r].st = "ended"
        /\ sreq[r].branch[site] = "fetched"
        /\ sreq[r].upstream[site] = "nonempty"
        /\ DataEventsOf(sreq[r], site) = {}
        /\ searchCache[SearchCacheKey(site, sreq[r].wd)] # Undefined

\* ------------------------------------------------------------------------
\* ApiSpec: one streaming search, the single-source searches and the
\* detail lookups, over one cache
\* ------------------------------------------------------------------------


ApiNext ==
    \/ \E r \in ApiReqs : ApiStart(r)
    \/ \E r \in ApiReqs : ApiFetchDone(r)
    \/ \E r \in ApiStreamReqs : StreamStart(r)
    \/ \E r \in ApiStreamReqs, site \in SiteKeys : StreamFetchDone(r, site)

ApiSpec == SearchSpecInit /\ [][ApiNext]_vars

\* ------------------------------------------------------------------------
\* LookupSpec: the single-source searches and the detail lookups
\* ------------------------------------------------------------------------

LookupNext ==
    \/ \E r \in ApiReqs : ApiStart(r)
    \/ \E r \in ApiReqs : ApiFetchDone(r)

LookupSpec == SearchSpecInit /\ [][LookupNext]_vars

\* ------------------------------------------------------------------------
\* Claims about the detail lookups (checked under LookupSpec)
\* ------------------------------------------------------------------------

DetailKinds == { "getDetail", "postDetail" }

\* The maps and the documents of the cache.
CacheContents == <<searchCache, detailCache, searchDisk, detailDisk>>

\* C12: no negative caching for detail.  For GET and POST alike: when the
\* upstream call of a detail lookup fails the answer is 500, when it returns
\* an empty or missing list the answer is 404, and in both cases the cache is
\* left as it was; when it returns a list with items, the first item is
\* stored under the lookup's key with a TTL of 3600 seconds and nothing else
\* of the cache changes; and a lookup that finds no entry under its key
\* calls the upstream.
C12_NoNegativeDetailCaching ==
    [][ \A r \in ApiReqs :
          LET old == areq[r]
              new == areq'[r]
              key == DetailCacheKey(new.siteKey, new.arg)
          IN  /\ (old.st = "fetching" /\ new.st = "done" /\ old.kind \in DetailKinds) =>
                  /\ new.upstream = "failed" =>
                        new.status = 500 /\ CacheContents' = CacheContents
                  /\ new.upstream = "empty" =>
                        new.status = 404 /\ CacheContents' = CacheContents
                  /\ new.upstream = "nonempty" =>
                        /\ detailCache' =
                              [detailCache EXCEPT ![key] =
                                 [value |-> UpstreamItem(new.siteKey, new.arg),
                                  expire |-> now + 3600 * 1000]]
                        /\ searchCache' = searchCache
              /\ (old.st = "idle" /\ new.st # "idle" /\ new.kind \in DetailKinds
                    /\ new.siteKey \in SiteKeys /\ detailCache[key] = Undefined) =>
                  new.st = "fetching" /\ new.calls = 1
      ]_vars

\* Witness of C12: a detail lookup was answered 404 on an empty list, and a
\* later lookup of the same source and id called the upstream again and
\* got the record.
C12_Witness ==
    \E r, q \in ApiReqs :
        /\ r < q
        /\ areq[r].kind \in DetailKinds /\ areq[q].kind \in DetailKinds
        /\ areq[r].siteKey = areq[q].siteKey /\ areq[r].arg = areq[q].arg
        /\ areq[r].upstream = "empty" /\ areq[r].status = 404
        /\ areq[q].calls = 1 /\ areq[q].upstream = "nonempty"
        /\ areq[q].status = 200

\* ------------------------------------------------------------------------
\* Claims about the two search endpoints (checked under ApiSpec)
\* ------------------------------------------------------------------------

\* The fields of an item of a single-source search response.
ReducedFields ==
    { "vod_id", "vod_name", "vod_pic", "vod_remarks", "vod_year", "type_name" }

\* C13: the field set of a response depends only on the endpoint.  Whatever
\* searches came before, a single-source search that is answered 200 sends a
\* list whose items hold only the reduced fields, never the play-URL fields.
\* A cache entry written by a streaming search is sent as it is, so TLC
\* refutes this.
C13_PostSearchFieldSet ==
    \A r \in ApiReqs :
        (areq[r].kind = "postSearch" /\ areq[r].status = 200) =>
            /\ HasProp(areq[r].body, "list")
            /\ \A i \in 1 .. Len(areq[r].body.list) :
                  DOMAIN areq[r].body.list[i] \subseteq ReducedFields

\* The payload of a response body: the memory backend hands out the stored
\* item, whose payload is its value.
Unwrapped(x) == IF HasProp(x, "expire") THEN x.value ELSE x

\* The items a streaming search wrote for its keyword come from the site they
\* are labelled with and were fetched for that keyword.
StreamAnswersOwnPair ==
    \A r \in SearchReqs :
        \A i \in EventsOfKind(sreq[r], "message") :
            \A j \in 1 .. Len(sreq[r].events[i].data) :
                LET item == sreq[r].events[i].data[j]
                IN  item.vod_name = <<item.site_key, sreq[r].wd>>

\* The items of a single-source search response were fetched from its site
\* for its keyword.
PostSearchAnswersOwnPair ==
    \A r \in ApiReqs :
        (areq[r].kind = "postSearch" /\ areq[r].status = 200) =>
            LET list == Unwrapped(areq[r].body).list
            IN  \A j \in 1 .. Len(list) :
                    list[j].vod_name = <<areq[r].siteKey, areq[r].arg>>

\* The record of a detail response was fetched from its site for its id.
DetailAnswersOwnPair ==
    \A r \in ApiReqs :
        (areq[r].kind \in DetailKinds /\ areq[r].status = 200) =>
            LET sent == IF areq[r].kind = "getDetail"
                        THEN areq[r].body.list[1] ELSE areq[r].body
            IN  Unwrapped(sent).vod_name = <<areq[r].siteKey, areq[r].arg>>

\* C18: cache entries do not cross (source, keyword) pairs.  Whatever the
\* site keys and the keywords, with or without "_" in them, a search for a
\* source and a keyword is answered only with what was fetched from that
\* source for that keyword, and a detail lookup only with what was fetched
\* from its source for its id.  The keys of ("a", "b_c") and ("a_b", "c") are
\* the same string, so TLC refutes this.
C18_NoCrossPairAnswers ==
    /\ StreamAnswersOwnPair
    /\ PostSearchAnswersOwnPair
    /\ DetailAnswersOwnPair

\* The keys of the entries of a document.
KeysOf(doc) == { kv[1] : kv \in doc }

\* The requests whose handler has called cacheManager.set and got back from it.
HasStored(r) == areq[r].calls = 1 /\ areq[r].status = 200

\* C17: the persisted backend mirrors memory with no lost updates.  On the
\* json backend, as long as no disk write has failed, each of the two
\* documents holds exactly the entries of the in-memory map of its category,
\* and the key of every set a handler has performed is in the document of
\* its category, whatever sets other handlers performed after it.
C17_DiskMirrorsMemory ==
    (cacheType = "json" /\ ~writeFailed) =>
        /\ searchDisk = { <<k, searchCache[k]>> :
                            k \in { x \in AllKeys : searchCache[x] # Undefined } }
        /\ detailDisk = { <<k, detailCache[k]>> :
                            k \in { x \in AllKeys : detailCache[x] # Undefined } }
        /\ \A r \in ApiReqs :
              HasStored(r) =>
                ApiCacheKey(areq[r].kind, areq[r].siteKey, areq[r].arg)
                  \in KeysOf(IF areq[r].kind = "postSearch"
                             THEN searchDisk ELSE detailDisk)

\* Witness of C17: on the json backend, with no failed write, a search
\* handler and then a detail handler have each stored an entry.
C17_Witness ==
    /\ cacheType = "json"
    /\ ~writeFailed
    /\ \E r, q \in ApiReqs :
          /\ r < q
          /\ HasStored(r) /\ areq[r].kind = "postSearch"
          /\ HasStored(q) /\ areq[q].kind \in DetailKinds
    /\ searchDisk # {}
    /\ detailDisk # {}

\* ------------------------------------------------------------------------
\* CacheSpec: the cache under arbitrary gets and sets
\* ------------------------------------------------------------------------

\* Payloads stored by the callers: a search result and a detail record.
Payloads == { [list |-> <<1>>], [vod_id |-> 1] }

\* The key the gets and sets of CacheSpec use, in both categories.
CacheSpecKeys == { SearchCacheKey(<<"a">>, <<"c">>) }

\* ttlSeconds of the sets (0: an entry that is expired as soon as it is set).
TtlChoices == { 0, 600 }

\* A handler calls cacheManager.set(...).
CacheSetOp ==
    \E cat \in Categories, key \in CacheSpecKeys, v \in Payloads, ttl \in TtlChoices,
       outcome \in DiskOutcomes :
        /\ DoCacheSet(cat, key, v, ttl, outcome)
        /\ setLog' = [setLog EXCEPT ![<<cat, key>>] =
                          [value |-> v, setAt |-> now, ttl |-> ttl]]
        /\ lastGet' = Undefined
        /\ UNCHANGED <<now, sreq, areq, imageVars, dir>>

\* A handler calls cacheManager.get(...); lastGet holds the call and its
\* result until the next step.
CacheGetOp ==
    \E cat \in Categories, key \in CacheSpecKeys :
        /\ lastGet' = [cat |-> cat, key |-> key,
                       result |-> CacheGet(cacheType, CurCache, cat, key, now)]
        /\ UNCHANGED <<now, cacheVars, setLog, sreq, areq, imageVars, dir>>

CacheTick ==
    /\ Tick
    /\ lastGet' = Undefined
    /\ UNCHANGED <<cacheVars, setLog, sreq, areq, imageVars, dir>>


CacheNext ==
    \/ CacheSetOp
    \/ CacheGetOp
    \/ CacheTick

CacheSpecInit ==
    /\ CacheInit
    /\ SearchInit
    /\ ApiInit
    /\ ImageQuiet

CacheSpec == CacheSpecInit /\ [][CacheNext]_vars

\* ------------------------------------------------------------------------
\* ImageSpec: image requests interleaved at their awaits, and the sweeps
\* ------------------------------------------------------------------------

\* The cache and the searches at rest.
CacheQuiet ==
    /\ CacheInit
    /\ cacheType = "json"
    /\ SearchInit
    /\ ApiInit

ImageNext ==
    \/ \E r \in ImgReqs : ImgStart(r)
    \/ \E r \in ImgReqs : ImgFetchFails(r)
    \/ \E r \in ImgReqs : ImgFetchReturns(r)
    \/ \E r \in ImgReqs : ImgWriteChunk(r)
    \/ \E r \in ImgReqs : ImgWriteFails(r)
    \/ \E r \in ImgReqs : ImgWriteDone(r)
    \/ SweepRun

ImageSpecInit ==
    /\ CacheQuiet
    /\ ImageInit
    /\ dir = [f \in FileIds |-> NoFile]

ImageSpec == ImageSpecInit /\ [][ImageNext]_vars

\* ------------------------------------------------------------------------
\* SweepSpec
\* ------------------------------------------------------------------------

SweepSpecInit ==
    /\ CacheQuiet
    /\ now = 0
    /\ fs = [p \in FsPaths |-> IF p \in {CacheRoot, Dirname(CacheRoot)}
                               THEN DirNode ELSE Absent]
    /\ ireq = [r \in ImgReqs |-> IdleImg]
    /\ newItemCount = 0
    /\ sweepTimers = 0
    /\ lastSweep = NoSweep
    /\ SweepDirInit

SweepNext ==
    /\ SweepDir
    /\ UNCHANGED <<now, searchVars, fs, ireq, newItemCount, sweepTimers>>

SweepSpec == SweepSpecInit /\ [][SweepNext]_vars

\* ------------------------------------------------------------------------
\* RacySweepSpec: the sweep on a directory other processes remove files from
\* ------------------------------------------------------------------------

RacySweepNext ==
    /\ RacySweepDir
    /\ UNCHANGED <<now, searchVars, fs, ireq, newItemCount, sweepTimers>>

RacySweepSpec == SweepSpecInit /\ [][RacySweepNext]_vars

\* ------------------------------------------------------------------------
\* Claims about the TTL cache (checked under CacheSpec)
\* ------------------------------------------------------------------------

\* The expiry time of a logged set: set time + ttlSeconds*1000.
ExpiryOf(log) == log.setAt + log.ttl * 1000

LastGetLog == setLog[<<lastGet.cat, lastGet.key>>]

\* A get returned miss.
IsMiss(result) == result \in {Null, Undefined}

\* C4: TTL expiry. For every backend, category and key, a get performed at
\* or after the entry's expiry time (set time + ttlSeconds*1000) returns miss.
\* The memory backend returns the stored item whatever its expiry, so TLC
\* refutes this.
C4_ExpiredGetIsMiss ==
    (lastGet # Undefined /\ LastGetLog # Undefined /\ now >= ExpiryOf(LastGetLog))
        => IsMiss(lastGet.result)

\* C5: TTL cache round-trip. For every backend, a get performed strictly
\* before the expiry of the last set of its (category, key) returns exactly
\* the value that was set. The memory backend returns the {value, expire}
\* item around it, so TLC refutes this.
C5_GetReturnsStoredValue ==
    (lastGet # Undefined /\ LastGetLog # Undefined /\ now < ExpiryOf(LastGetLog))
        => lastGet.result = LastGetLog.value

\* ------------------------------------------------------------------------
\* Claims about the image cache store (checked under ImageSpec)
\* ------------------------------------------------------------------------

\* The content is empty or a strict prefix of the complete upstream object.
Truncated(chunks) == \E k \in 0 .. FullLen - 1 : chunks = 0 .. k - 1

\* C6: no truncated image is served as a hit.  Under every interleaving of
\* the requests for one (size, filename), what the hit path sends is never
\* empty nor a strict prefix of the complete object.  A request that arrives
\* while another request's download has written part of the file takes the
\* hit path, so TLC refutes this.
C6_HitNeverTruncated ==
    \A r \in ImgReqs : ireq[r].result = "hit" => ~Truncated(ireq[r].served)

\* C7: image path confinement.  A request with a size outside the allow-set
\* or a file name with a character outside [a-zA-Z0-9._-] is answered 400
\* with no file system access and no upstream fetch; every file system
\* operation of an accepted request is on a file directly inside
\* <cache root>/<size>/.  The names "." and ".." are accepted and resolve to
\* the size directory and the cache root, so TLC refutes this.
C7_PathConfinement ==
    \A r \in ImgReqs :
        LET req == ireq[r]
        IN  req.st # "idle" =>
              IF Refused(req.size, req.name)
              THEN req.result = "400" /\ req.touched = {} /\ req.fetches = 0
              ELSE \A t \in req.touched : Len(t[2]) = 2 /\ t[2][1] = req.size

\* Request `later` arrived after request `first` had ended, for the same
\* accepted (size, filename); neither overlapped another request for that
\* path; the download of `first` succeeded and no sweep removed the file
\* between the two.
HitAfterDownload(first, later) ==
    /\ ireq[first].st = "done"
    /\ ireq[first].result = "sent"
    /\ ~ireq[first].overlapped
    /\ ireq[later].st = "done"
    /\ first \in ireq[later].after
    /\ ~Refused(ireq[later].size, ireq[later].name)
    /\ ireq[later].size = ireq[first].size
    /\ ireq[later].name = ireq[first].name
    /\ ~ireq[later].overlapped

\* C10: image hit path.  For non-overlapping requests for one valid
\* (size, filename), where the first request's download succeeds and no
\* sweep removes the file in between: the first request makes exactly one
\* upstream fetch and sends the complete file it created; the later request
\* makes no upstream fetch, sends the same bytes, and sets the file's
\* timestamp to its own time.
C10_HitAfterDownload ==
    \A first, later \in ImgReqs :
        HitAfterDownload(first, later) =>
            /\ ireq[first].fetches = 1
            /\ ireq[first].served = AllChunks
            /\ ireq[later].fetches = 0
            /\ ireq[later].result = "hit"
            /\ ireq[later].served = ireq[first].served
            /\ ireq[later].mtimeSet = ireq[later].at

\* Witness of C10: such a pair of requests has happened.
C10_Witness ==
    \E first, later \in ImgReqs :
        /\ HitAfterDownload(first, later)
        /\ ireq[later].result = "hit"

\* In this step the download of a miss completes: its pipeline has written
\* the whole body and the handler goes on to send the file.
DownloadCompletes(r) ==
    /\ ireq[r].st = "writing"
    /\ ireq[r].pos = FullLen
    /\ ireq'[r].st = "done"
    /\ ireq'[r].result \in {"sent", "sendError"}

\* C14: the eviction trigger.  Between requests the insertion counter is in
\* 0 .. 49.  It changes, and a sweep is scheduled, only in a step in which the
\* download of a miss completes (never on a hit, a refused request or a failed
\* download); every such step adds one to the counter, and when that makes 50
\* the counter is reset to 0 and exactly one sweep is scheduled; the request
\* is answered in that same step, before the sweep has run.
C14_EvictionTrigger ==
    /\ [](newItemCount \in 0 .. 49)
    /\ [][ /\ (newItemCount' # newItemCount \/ sweepTimers' > sweepTimers) =>
                \E r \in ImgReqs : DownloadCompletes(r)
           /\ (\E r \in ImgReqs : DownloadCompletes(r)) =>
                /\ newItemCount' = (newItemCount + 1) % 50
                /\ sweepTimers' = sweepTimers + (IF newItemCount + 1 = 50 THEN 1 ELSE 0)
                /\ lastSweep' = lastSweep
                /\ fs' = fs
         ]_vars

\* Witness of C14: the fiftieth insertion has scheduled a sweep and reset the
\* counter, its request is answered, and the sweep has not run yet.
C14_Witness ==
    /\ newItemCount = 0
    /\ sweepTimers = 1
    /\ ~lastSweep.ran
    /\ \E r \in ImgReqs : ireq[r].st = "done" /\ ireq[r].result = "sent"

\* In this step the catch block of request r unlinks the file at its path.
CleanupUnlinks(r) ==
    /\ InFlight(ireq[r])
    /\ ireq'[r].st = "done"
    /\ ireq'[r].result = "404"
    /\ fs[ireq[r].path].kind = "file"
    /\ fs'[ireq[r].path].kind = "absent"

\* The file at `path` is complete and is the finished download of a request
\* other than r, and r has no stream open on it.
CompleteFileOfAnother(r, path) ==
    /\ fs[path].kind = "file"
    /\ fs[path].chunks = AllChunks
    /\ ~(ireq[r].st = "writing" /\ ireq[r].linked)
    /\ \E q \in ImgReqs \ {r} :
          ireq[q].st = "done" /\ ireq[q].result = "sent" /\ ireq[q].path = path

\* C19: failure cleanup removes only the failing request's own partial file.
\* Under every interleaving, the catch block of a request never unlinks a
\* complete file that another request has finished writing at that path, and
\* a request whose own download ran to its end sends the complete file.  The
\* catch block unlinks whatever is at localPath, so TLC refutes this.
C19_CleanupRemovesOnlyOwnFile ==
    /\ [](\A r \in ImgReqs :
            (ireq[r].st = "done" /\ ireq[r].pos = FullLen
               /\ ireq[r].result \in {"sent", "sendError"}) =>
                ireq[r].result = "sent" /\ ireq[r].served = AllChunks)
    /\ [][ \A r \in ImgReqs :
             CleanupUnlinks(r) => ~CompleteFileOfAnother(r, ireq[r].path) ]_vars

\* ------------------------------------------------------------------------
\* Claims about the eviction sweep (checked under SweepSpec)
\* ------------------------------------------------------------------------

\* The deletions the last sweep attempted and that failed.
FailedDeletions == lastSweep.attempted \cap lastSweep.failing

\* The total size, in MiB, of the files now in the directory.
DirTotal == ListingTotal(DirListing)

\* C8: eviction size postcondition.  When the sweep ran on a directory whose
\* total exceeded the budget and every deletion it attempted succeeded, the
\* total that remains is at most the budget, and at most 90% of it.
C8_SweepWithinBudget ==
    (lastSweep.ran /\ lastSweep.total > MAX_CACHE_SIZE_MB /\ FailedDeletions = {})
        => /\ DirTotal <= MAX_CACHE_SIZE_MB
           /\ DirTotal * 10 <= MAX_CACHE_SIZE_MB * 9

\* Witness of C8: a sweep over the budget has deleted some files, all its
\* deletions succeeded, and some files remain.
C8_Witness ==
    /\ lastSweep.ran
    /\ lastSweep.total > MAX_CACHE_SIZE_MB
    /\ FailedDeletions = {}
    /\ lastSweep.deleted # {}
    /\ DirTotal > 0

\* The size deleted falls short of total - 0.9 * budget.
BelowTarget(deletedSize, total) ==
    deletedSize * 10 < total * 10 - MAX_CACHE_SIZE_MB * 9

\* C9: eviction order and minimality.  The files whose deletion the sweep
\* attempted are a prefix of the files in ascending order of timestamp, the
\* deleted ones are among them and are gone, the others are kept; no deleted
\* file is newer than a kept file that was not attempted; the sweep stops as
\* soon as the deleted size reaches total - 0.9 * budget (without the last
\* deleted file it is below that, and files are left unattempted only when it
\* is reached); within the budget the sweep deletes nothing.
C9_OldestFirstAndMinimal ==
    lastSweep.ran =>
        LET listing == lastSweep.listing
            order == lastSweep.order
            attempted == lastSweep.attempted
            deleted == lastSweep.deleted
            deletedSize == SumSizes(listing, deleted)
        IN  /\ \A i, j \in DOMAIN order :
                  i < j => listing[order[i]].time <= listing[order[j]].time
            /\ \E k \in 0 .. Len(order) : attempted = { order[i] : i \in 1 .. k }
            /\ deleted = attempted \ lastSweep.failing
            /\ \A f \in FileIds :
                  dir[f] = IF f \in DOMAIN listing /\ f \notin deleted
                           THEN listing[f] ELSE NoFile
            /\ \A d \in deleted, f \in (DOMAIN listing) \ attempted :
                  listing[d].time <= listing[f].time
            /\ lastSweep.total <= MAX_CACHE_SIZE_MB => attempted = {}
            /\ \A i \in DOMAIN order :
                  (order[i] \in deleted
                     /\ \A j \in DOMAIN order : j > i => order[j] \notin deleted)
                  => BelowTarget(deletedSize - listing[order[i]].size, lastSweep.total)
            /\ (lastSweep.total > MAX_CACHE_SIZE_MB /\ attempted # DOMAIN listing)
                  => ~BelowTarget(deletedSize, lastSweep.total)

\* Witness of C9: a sweep whose first deletion failed, whose next deletion
\* reached the target, and which left a newer file unattempted.
C9_Witness ==
    /\ lastSweep.ran
    /\ FailedDeletions # {}
    /\ lastSweep.deleted # {}
    /\ lastSweep.attempted # DOMAIN lastSweep.listing

\* The files a sweep found still there when it examined them.
Surviving == [f \in (DOMAIN lastSweep.listing) \ lastSweep.vanished |->
                lastSweep.listing[f]]

\* The size the sweep had deleted when it came to the i-th file of its order.
DeletedBefore(i) ==
    SumSizes(lastSweep.listing,
             { lastSweep.order[j] : j \in 1 .. i - 1 } \cap lastSweep.deleted)

\* C16: the sweep tolerates vanishing files.  When files that the walk had
\* listed are gone by the time it examines them, the sweep skips them: it is
\* not aborted, it totals the files that are left and, when their total
\* exceeds the budget and no deletion fails, it leaves at most 90% of the
\* budget; and a deletion that fails does not stop the sweep: while the
\* target is not reached, the file after it is attempted too.  fs.statSync
\* of a vanished file throws out of the walk, so TLC refutes this.
C16_SweepToleratesVanishing ==
    lastSweep.ran =>
        /\ lastSweep.vanished # {} =>
              /\ ~lastSweep.aborted
              /\ lastSweep.total = ListingTotal(Surviving)
              /\ (lastSweep.total > MAX_CACHE_SIZE_MB /\ FailedDeletions = {}) =>
                    DirTotal * 10 <= MAX_CACHE_SIZE_MB * 9
        /\ \A i \in 1 .. Len(lastSweep.order) - 1 :
              (lastSweep.order[i] \in FailedDeletions
                 /\ BelowTarget(DeletedBefore(i + 1), lastSweep.total))
              => lastSweep.order[i + 1] \in lastSweep.attempted

====
